---- MODULE Spec2Model ----
(***************************************************************************)
(* A model of getenv.c: a ptrace controller that makes a stopped target    *)
(* process call getenv() on a scratch page and prints the returned string. *)
(*                                                                         *)
(* The controller is a sequential program; pc names the statement it is    *)
(* about to execute.  The target is a small x86_64 machine: a register     *)
(* file, the sixteen bytes of text at its pre-attach instruction pointer,  *)
(* the scratch page, the eight bytes below its stack pointer and the       *)
(* memory that holds the value of the variable.  Every ptrace request can  *)
(* fail (the kernel's answer is an input); the number of failures of one   *)
(* run is bounded by MaxFaults.                                            *)
(***************************************************************************)
EXTENDS Integers, Sequences, FiniteSets, TLC

(***************************************************************************)
(* Bounds of the model.                                                    *)
(***************************************************************************)
\* kernel requests that may fail in one run
MaxFaults == 1
\* longest value of the variable drawn bytewise from ValueBytes
MaxValLen == 2

(***************************************************************************)
(* Program constants.                                                      *)
(***************************************************************************)
REL32_SZ == 5
PAGE_SIZE == 4096
WordSize == 8
SYS_mmap == 9
SYS_munmap == 11
PROT_READ_EXEC == 5
MAP_PRIVATE_ANONYMOUS == 34
MinBlockSize == 32
CallOpcode == 232
TrapOpcode == 204

(***************************************************************************)
(* 64-bit words: four 16-bit limbs, least significant first.  TLC's        *)
(* integers are 32 bits wide, so the arithmetic of void* and                *)
(* int64_t is done limb by limb, modulo 2^64.                              *)
(***************************************************************************)
Limb == 256 * 256
HalfLimb == 128 * 256

Zero64 == <<0, 0, 0, 0>>
MinusOne64 == <<Limb - 1, Limb - 1, Limb - 1, Limb - 1>>

\* a small non-negative integer as a 64-bit word
FromNat(n) == <<n % Limb, (n \div Limb) % Limb, 0, 0>>

Add64(a, b) ==
    LET s1 == a[1] + b[1]
        s2 == a[2] + b[2] + (s1 \div Limb)
        s3 == a[3] + b[3] + (s2 \div Limb)
        s4 == a[4] + b[4] + (s3 \div Limb)
    IN  <<s1 % Limb, s2 % Limb, s3 % Limb, s4 % Limb>>

Not64(a) == <<Limb - 1 - a[1], Limb - 1 - a[2], Limb - 1 - a[3], Limb - 1 - a[4]>>

Neg64(a) == Add64(Not64(a), FromNat(1))

Sub64(a, b) == Add64(a, Neg64(b))

\* a negative small integer -n as a 64-bit word (two's complement)
FromNeg(n) == Neg64(FromNat(n))

\* the value of a 32-bit two's complement number (two limbs) as int64_t
SignExt32(lo, hi) ==
    <<lo, hi, IF hi >= HalfLimb THEN Limb - 1 ELSE 0,
              IF hi >= HalfLimb THEN Limb - 1 ELSE 0>>

\* INT_MIN <= d <= INT_MAX for an int64_t d
FitsInt32(d) == d = SignExt32(d[1], d[2])

\* the low 32 bits of a word, as four bytes in memory order (little-endian)
Bytes32(a) == <<a[1] % 256, a[1] \div 256, a[2] % 256, a[2] \div 256>>

\* a word as eight bytes in memory order
Bytes64(a) == Bytes32(a) \o <<a[3] % 256, a[3] \div 256, a[4] % 256, a[4] \div 256>>

\* a - base as a small offset, or -1 when a is not in [base, base + size)
OffsetIn(a, base, size) ==
    LET d == Sub64(a, base)
    IN  IF d[4] = 0 /\ d[3] = 0 /\ d[2] = 0 /\ d[1] < size THEN d[1] ELSE -1

(***************************************************************************)
(* Byte sequences.  Memory a sequence does not reach reads as zero.        *)
(***************************************************************************)
ByteAt(mem, i) == IF i >= 1 /\ i <= Len(mem) THEN mem[i] ELSE 0

Max(a, b) == IF a >= b THEN a ELSE b

\* mem with bytes written at offset off (0-based)
WriteAt(mem, off, bytes) ==
    [i \in 1..Max(Len(mem), off + Len(bytes)) |->
        IF i > off /\ i <= off + Len(bytes) THEN bytes[i - off] ELSE ByteAt(mem, i)]

\* n bytes of mem from offset off (0-based)
ReadAt(mem, off, n) == [i \in 1..n |-> ByteAt(mem, off + i)]

Zeros(n) == [i \in 1..n |-> 0]

(***************************************************************************)
(* C strings: sequences of one-character strings; the character after the  *)
(* last one is the terminating NUL.                                        *)
(***************************************************************************)
NUL == "NUL"

CharAt(s, i) == IF i >= 1 /\ i <= Len(s) THEN s[i] ELSE NUL

LowerCase ==
    {"a", "b", "c", "d", "e", "f", "g", "h", "i", "j", "k", "l", "m",
     "n", "o", "p", "q", "r", "s", "t", "u", "v", "w", "x", "y", "z"}

HexLower == <<"0", "1", "2", "3", "4", "5", "6", "7", "8", "9", "a", "b", "c", "d", "e", "f">>
HexUpper == <<"0", "1", "2", "3", "4", "5", "6", "7", "8", "9", "A", "B", "C", "D", "E", "F">>

IsHex(c) == \E i \in 1..16 : HexLower[i] = c \/ HexUpper[i] = c

HexVal(c) == (CHOOSE i \in 1..16 : HexLower[i] = c \/ HexUpper[i] = c) - 1

\* whether needle occurs in hay at position i (1-based)
MatchesAt(hay, needle, i) ==
    /\ i + Len(needle) - 1 <= Len(hay)
    /\ \A k \in 1..Len(needle) : hay[i + k - 1] = needle[k]

\* strstr: the position of the first occurrence of needle in hay, 0 for NULL
strstr(hay, needle) ==
    IF \E i \in 1..Len(hay) : MatchesAt(hay, needle, i)
    THEN CHOOSE i \in 1..Len(hay) :
            /\ MatchesAt(hay, needle, i)
            /\ \A j \in 1..(i - 1) : ~MatchesAt(hay, needle, j)
    ELSE 0

\* the number of hexadecimal digits of s from position i on
RECURSIVE HexRun(_, _)
HexRun(s, i) == IF IsHex(CharAt(s, i)) THEN 1 + HexRun(s, i + 1) ELSE 0

\* the value of the n hexadecimal digits of s that end at position last,
\* n <= 4 (one limb)
RECURSIVE HexLimb(_, _, _)
HexLimb(s, last, n) ==
    IF n = 0 THEN 0 ELSE HexVal(s[last]) + 16 * HexLimb(s, last - 1, n - 1)

Min(a, b) == IF a <= b THEN a ELSE b

LONG_MAX64 == <<Limb - 1, Limb - 1, Limb - 1, HalfLimb - 1>>

\* strtol(s, NULL, 16) of a string that starts with its digits (as every
\* line of a maps file does): the digits' value, LONG_MAX when it does not
\* fit in a long, 0 when there is no digit
strtol16(s) ==
    LET n == HexRun(s, 1)
        \* leading zeros do not count
        z == IF \E k \in 1..n : s[k] # "0"
             THEN (CHOOSE k \in 1..n : s[k] # "0" /\ \A j \in 1..(k - 1) : s[j] = "0") - 1
             ELSE n
        sig == n - z
        limb(k) == HexLimb(s, n - 4 * (k - 1), Max(0, Min(4, sig - 4 * (k - 1))))
    IN  IF sig > 16 \/ (sig = 16 /\ limb(4) >= HalfLimb)
        THEN LONG_MAX64
        ELSE <<limb(1), limb(2), limb(3), limb(4)>>

libc_string == <<"/", "l", "i", "b", "c">>
text_area == <<" ", "r", "-", "x", "p", " ">>

\* find_library over the lines of /proc/<pid>/maps: the start address of the
\* first line that holds libname, holds text_area and whose character
\* strlen(libc_string) places after the match is no lowercase letter; NULL
\* (zero) when no line does
RECURSIVE find_library(_, _)
find_library(lines, libname) ==
    IF lines = <<>> THEN Zero64
    ELSE LET line == Head(lines)
             pos == strstr(line, libname)
         IN  IF /\ pos # 0
                /\ strstr(line, text_area) # 0
                /\ CharAt(line, pos + Len(libc_string)) \notin LowerCase
             THEN strtol16(line)
             ELSE find_library(Tail(lines), libname)

\* a displacement counted from the CALL itself, not from its end
compute_jmp_fromCall(from, to) ==
    LET delta == Sub64(to, from)
    IN  IF ~FitsInt32(delta) THEN [exit |-> TRUE, rel |-> delta]
        ELSE [exit |-> FALSE, rel |-> delta]

\* compute_jmp: the rel32 of a CALL at from that reaches to; "exit" when the
\* displacement does not fit in an int (the program exits with status 1)
compute_jmp(from, to) ==
    LET delta == Sub64(Sub64(to, from), FromNat(REL32_SZ))
    IN  IF ~FitsInt32(delta) THEN [exit |-> TRUE, rel |-> delta]
        ELSE [exit |-> FALSE, rel |-> delta]

(***************************************************************************)
(* The processes of a run: what /proc/<pid>/maps holds for the target and  *)
(* for the controller, and where getenv really is.                         *)
(***************************************************************************)
Chars(digits) == [i \in 1..Len(digits) |-> HexLower[digits[i] + 1]]

\* one line of a maps file: "start-end perms offset dev inode   path\n"
MapsLine(start, end, perms, path) ==
    Chars(start) \o <<"-">> \o Chars(end) \o <<" ">> \o perms \o <<" ">>
        \o <<"0", "0", "0", "0", "0", "0", "0", "0", " ", "0", "8", ":", "0", "1", " ",
             "9", "1", "7", " ">>
        \o path \o <<"\n">>

Perm_rx == <<"r", "-", "x", "p">>
Perm_r == <<"r", "-", "-", "p">>
Perm_rw == <<"r", "w", "-", "p">>

PathExe == <<"/", "b", "i", "n", "/", "s", "l", "e", "e", "p">>
PathCool == <<"/", "l", "i", "b", "/", "l", "i", "b", "c", "o", "o", "l", "t", "h", "i", "n", "g", ".", "s", "o">>
PathLibc == <<"/", "l", "i", "b", "/", "l", "i", "b", "c", ".", "s", "o", ".", "6">>
PathStack == <<"[", "s", "t", "a", "c", "k", "]">>

\* 0x55d0a3c01000
ExeLine == MapsLine(<<5, 5, 13, 0, 10, 3, 12, 0, 1, 0, 0, 0>>, <<5, 5, 13, 0, 10, 3, 12, 0, 2, 0, 0, 0>>, Perm_rx, PathExe)
\* 0x7f3a1c000000
CoolLine == MapsLine(<<7, 15, 3, 10, 1, 12, 0, 0, 0, 0, 0, 0>>, <<7, 15, 3, 10, 1, 12, 0, 0, 1, 0, 0, 0>>, Perm_rx, PathCool)
\* 0x7f3a1c200000 and 0x7f3a1c228000: the C library of the target
TheirLibcHdrLine == MapsLine(<<7, 15, 3, 10, 1, 12, 2, 0, 0, 0, 0, 0>>, <<7, 15, 3, 10, 1, 12, 2, 2, 8, 0, 0, 0>>, Perm_r, PathLibc)
TheirLibcLine == MapsLine(<<7, 15, 3, 10, 1, 12, 2, 2, 8, 0, 0, 0>>, <<7, 15, 3, 10, 1, 12, 3, 11, 13, 0, 0, 0>>, Perm_rx, PathLibc)
\* 0x7f8e55400000 and 0x7f8e55428000: the C library of the controller
OurLibcHdrLine == MapsLine(<<7, 15, 8, 14, 5, 5, 4, 0, 0, 0, 0, 0>>, <<7, 15, 8, 14, 5, 5, 4, 2, 8, 0, 0, 0>>, Perm_r, PathLibc)
OurLibcLine == MapsLine(<<7, 15, 8, 14, 5, 5, 4, 2, 8, 0, 0, 0>>, <<7, 15, 8, 14, 5, 5, 5, 11, 13, 0, 0, 0>>, Perm_rx, PathLibc)
\* 0x7ffd2b3a4000
StackLine == MapsLine(<<7, 15, 15, 13, 2, 11, 3, 10, 4, 0, 0, 0>>, <<7, 15, 15, 13, 2, 11, 3, 12, 6, 0, 0, 0>>, Perm_rw, PathStack)

TheirLibcText == <<32768, 7202, 32570, 0>>
OurLibcText == <<32768, 21826, 32654, 0>>
\* getenv - (start of the library's text mapping), the same in both images
GetenvOffset == FromNat(118320)
\* getenv as a non-PIC executable sees it: its own PLT entry, 0x401030
PltGetenv == FromNat(4198448)

\* the target: a dynamically linked process, or a static one (no C library
\* mapped; getenv then is nowhere the controller can know)
TargetImages == {"dynamic", "static"}

TargetImage(t) ==
    IF t = "dynamic"
    THEN [maps |-> <<ExeLine, CoolLine, TheirLibcHdrLine, TheirLibcLine, StackLine>>,
          getenv |-> Add64(TheirLibcText, GetenvOffset)]
    ELSE [maps |-> <<ExeLine, StackLine>>, getenv |-> Zero64]

\* the controller: built position independent (getenv is the library's),
\* built without -fPIC (getenv is a PLT entry of the executable), or linked
\* statically (no C library mapped)
OurImages == {"pic", "nopic", "static"}

OurImage(o) ==
    IF o = "pic"
    THEN [maps |-> <<ExeLine, OurLibcHdrLine, OurLibcLine, StackLine>>,
          getenv |-> Add64(OurLibcText, GetenvOffset)]
    ELSE IF o = "nopic"
    THEN [maps |-> <<ExeLine, OurLibcHdrLine, OurLibcLine, StackLine>>, getenv |-> PltGetenv]
    ELSE [maps |-> <<ExeLine, StackLine>>, getenv |-> PltGetenv]

\* where the kernel may place the scratch page: next to the libraries
\* (0x7f3a1c5fb000), or low (0x40000000)
PageAddrs == { <<45056, 7263, 32570, 0>>, <<0, 16384, 0, 0>> }

\* what a failing mmap leaves in rax: -ENOMEM, -EPERM
MmapErrors == { FromNeg(12), FromNeg(1) }

\* the target's instruction pointer and stack pointer before the attach
TextBase == <<4406, 41920, 21968, 0>>
StackTop == <<18960, 11068, 32765, 0>>
\* where the value of the variable starts, before its alignment is added
ValBase == <<24320, 11068, 32765, 0>>

Regs(rip_, rax_, rsp_) ==
    [rip |-> rip_, rax |-> rax_, rdi |-> FromNat(1), rsi |-> FromNat(2),
     rdx |-> FromNat(3), r10 |-> FromNat(10), r8 |-> FromNat(8), r9 |-> FromNat(9),
     rcx |-> FromNat(4), r11 |-> FromNat(11), rsp |-> rsp_]

\* register files the target may have when it is stopped
BaseRegsSet == { Regs(TextBase, FromNat(28), StackTop) }

\* sixteen bytes of text the target may be executing
BaseTexts ==
    { <<235, 254, 144, 144, 144, 144, 144, 144, 72, 137, 229, 195, 144, 144, 144, 144>>,
      <<72, 131, 192, 1, 72, 57, 216, 117, 247, 195, 15, 31, 64, 0, 204, 204>> }

\* indeterminate contents of an uninitialised array of n bytes
Garbage(n) == { [i \in 1..n |-> 0], [i \in 1..n |-> 160 + i] }

\* the variable the target has set, "FOO", and the names asked for
EnvName == <<70, 79, 79>>
Names == { EnvName, <<66, 65, 82>>,
           <<77, 73, 83, 83, 73, 78, 71, 95, 86, 65, 82, 73, 65, 66, 76, 69, 95, 87, 73,
             84, 72, 95, 76, 79, 78, 71, 95, 78, 65, 77, 69>> }

ValueBytes == {1, 255}

RECURSIVE SeqsUpTo(_, _)
SeqsUpTo(S, n) ==
    IF n = 0 THEN { <<>> }
    ELSE LET shorter == SeqsUpTo(S, n - 1)
         IN  shorter \cup { Append(s, b) : s \in { t \in shorter : Len(t) = n - 1 }, b \in S }

\* long values, around the 257 bytes of the specification's scenario
LongValues == { [i \in 1..n |-> 1 + (i % 255)] : n \in {255, 256, 257, 258} }

Values == SeqsUpTo(ValueBytes, MaxValLen)

\* the memory around the value v of the variable: "=" bytes up to its start
\* (the end of "FOO="), v, its NUL, and what follows it
Tails == { <<>>, <<90, 61, 49>> }

ValueMemory(v, align, tail) == [i \in 1..align |-> 61] \o v \o <<0>> \o tail

(***************************************************************************)
(* State.                                                                  *)
(***************************************************************************)
VARIABLES
    \* the controller: its position, the command line, how it ended
    pc, argv, result,
    \* the locals of main and getenv_process
    pid, env, oldregs, newregs, rip, old_word, new_word, mmap_memory,
    their_libc, our_libc, their_getenv, new_text, blocksize, offs, slen, buf,
    \* standard output (bytes) and standard error (one tag per message)
    out, err,
    \* the target: registers, the sixteen bytes at TextBase, the scratch page,
    \* the eight bytes below StackTop, the memory of the value, its tracer
    tregs, text, page, stack, vmem, attached,
    \* the images of the two processes
    timage, oimage,
    \* history: the target before the attach, kernel requests that failed,
    \* and what has happened so far
    baseRegs, origText, faults, opFailed, hist

ctlVars == <<pid, env, oldregs, newregs, rip, old_word, new_word, mmap_memory,
             their_libc, our_libc, their_getenv, new_text, blocksize, offs, slen, buf>>
tgtVars == <<tregs, text, page, stack, vmem, attached>>
envVars == <<argv, timage, oimage, baseRegs, origText>>
vars == <<pc, result, out, err, ctlVars, tgtVars, envVars, faults, opFailed, hist>>

TargetPid == 4711

Running == [how |-> "running", ret |-> 0, status |-> 0]
\* main returns r (or getenv_process does and main passes it on): the exit
\* status is its low eight bits
Returned(r) == [how |-> "return", ret |-> r, status |-> r % 256]
\* exit(1) inside compute_jmp
Exited(s) == [how |-> "exit", ret |-> 0, status |-> s]
\* killed by SIGSEGV: the shell reports 128 + 11
Crashed == [how |-> "crash", ret |-> 0, status |-> 128 + 11]
\* blocked for ever
Hung == [how |-> "hang", ret |-> 0, status |-> 0]

NoPage == [mapped |-> FALSE, addr |-> Zero64, bytes |-> <<>>]

\* a call of poke_text: where, how many bytes, old text saved or not
Write(where, len, capture) == [where |-> where, len |-> len, capture |-> capture]

NoHist ==
    [attachedOnce |-> FALSE, patched |-> FALSE, detaches |-> 0, mmapFailed |-> FALSE, secondStep |-> FALSE, nullBase |-> FALSE,
     trampWritten |-> FALSE, callExecuted |-> FALSE, wildCall |-> FALSE,
     lookup |-> "none", value |-> <<>>, captured |-> FALSE, restores |-> 0,
     writes |-> {}, requests |-> 0, spilled |-> 0, events |-> <<>>]

(***************************************************************************)
(* The command line: the options getopt hands to main, in order.           *)
(***************************************************************************)
OptH == [opt |-> "h", num |-> 0, erange |-> FALSE, str |-> <<>>]
OptP(n) == [opt |-> "p", num |-> n, erange |-> FALSE, str |-> <<>>]
OptPRange == [opt |-> "p", num |-> 0, erange |-> TRUE, str |-> <<>>]
OptE(name) == [opt |-> "e", num |-> 0, erange |-> FALSE, str |-> name]
OptBad == [opt |-> "?", num |-> 0, erange |-> FALSE, str |-> <<>>]

ArgVectors ==
    { <<OptP(TargetPid), OptE(n)>> : n \in Names }
    \cup { <<>>, <<OptH>>, <<OptP(-1), OptE(EnvName)>>, <<OptP(TargetPid)>>,
           <<OptE(EnvName)>>, <<OptBad>>, <<OptPRange, OptE(EnvName)>>,
           <<OptE(EnvName), OptP(TargetPid), OptH>> }

\* the getopt loop of main from option i on, with pid and env as they are:
\* the exit code when main returns from inside the loop or from the checks
\* after it, else the arguments of getenv_process
RECURSIVE ParseArgs(_, _, _, _, _)
ParseArgs(args, i, pid_, env_, haveEnv) ==
    IF i > Len(args)
    THEN IF pid_ = -1 THEN [exit |-> TRUE, code |-> 1, msg |-> "must specify -p", pid |-> pid_, env |-> env_]
         ELSE IF ~haveEnv THEN [exit |-> TRUE, code |-> 1, msg |-> "must specify -e", pid |-> pid_, env |-> env_]
         ELSE [exit |-> FALSE, code |-> 0, msg |-> "", pid |-> pid_, env |-> env_]
    ELSE LET o == args[i]
         IN  CASE o.opt = "h" -> [exit |-> TRUE, code |-> 0, msg |-> "usage", pid |-> pid_, env |-> env_]
               [] o.opt = "p" ->
                    IF o.erange THEN [exit |-> TRUE, code |-> 1, msg |-> "strtol", pid |-> pid_, env |-> env_]
                    ELSE IF o.num < 0 THEN [exit |-> TRUE, code |-> 1, msg |-> "negative pid", pid |-> pid_, env |-> env_]
                    ELSE ParseArgs(args, i + 1, o.num, env_, haveEnv)
               [] o.opt = "e" -> ParseArgs(args, i + 1, pid_, o.str, TRUE)
               [] OTHER -> [exit |-> TRUE, code |-> 1, msg |-> "option", pid |-> pid_, env |-> env_]

(***************************************************************************)
(* The target machine.  m is [regs, text, page, stack].                    *)
(***************************************************************************)
\* a user-space (canonical, lower half) address
IsUserAddr(a) == a[4] = 0 /\ a[3] < HalfLimb

\* the byte at address a, -1 where nothing is mapped
FetchByte(m, a) ==
    LET ot == OffsetIn(a, TextBase, 16)
        op == IF m.page.mapped THEN OffsetIn(a, m.page.addr, PAGE_SIZE) ELSE -1
    IN  IF ot >= 0 THEN m.text[ot + 1]
        ELSE IF op >= 0 THEN ByteAt(m.page.bytes, op + 1)
        ELSE -1

RFlags == FromNat(582)
\* what a caller-saved register holds after a library call
Clobbered == FromNat(57005)
\* an address of the target at which nothing is mapped
WildAddr == <<4096, 0, 16, 0>>

Stop(sig, m, tag, fault) ==
    [sig |-> sig, regs |-> m.regs, page |-> m.page, stack |-> m.stack, tag |-> tag, fault |-> fault]

\* the SYSCALL instruction: the kernel runs system call rax and leaves its
\* result in rax, the return address in rcx and the flags in r11
Syscall(m) ==
    LET r == m.regs
        after(res) == [r EXCEPT !.rax = res, !.rcx = Add64(r.rip, FromNat(2)),
                                !.r11 = RFlags, !.rip = Add64(r.rip, FromNat(2))]
    IN  IF r.rax = FromNat(SYS_mmap)
        THEN { Stop("TRAP", [m EXCEPT !.regs = after(a),
                                      !.page = [mapped |-> TRUE, addr |-> a, bytes |-> <<>>]],
                    "mmap", FALSE) : a \in PageAddrs }
             \cup { Stop("TRAP", [m EXCEPT !.regs = after(e)], "mmap_failed", TRUE) : e \in MmapErrors }
        ELSE IF r.rax = FromNat(SYS_munmap)
        THEN IF m.page.mapped /\ r.rdi = m.page.addr /\ r.rsi = FromNat(PAGE_SIZE)
             THEN { Stop("TRAP", [m EXCEPT !.regs = after(Zero64), !.page = NoPage], "munmap", FALSE) }
             ELSE { Stop("TRAP", [m EXCEPT !.regs = after(FromNeg(22))], "munmap_failed", FALSE) }
        ELSE { Stop("TRAP", [m EXCEPT !.regs = after(FromNeg(38))], "enosys", FALSE) }

\* JMP *%rax: a jump to a non-canonical address faults and leaves rip alone
JmpRax(m) ==
    IF IsUserAddr(m.regs.rax)
    THEN { Stop("TRAP", [m EXCEPT !.regs.rip = m.regs.rax], "jmp", FALSE) }
    ELSE { Stop("SEGV", m, "jmp_fault", FALSE) }

\* bytes the model does not decode: the instruction faults, or it is some
\* two-byte instruction that leaves the registers alone
Undecoded(m) ==
    { Stop("SEGV", m, "fault", FALSE),
      Stop("TRAP", [m EXCEPT !.regs.rip = Add64(m.regs.rip, FromNat(2))], "other", FALSE) }

\* PTRACE_SINGLESTEP: the target executes the one instruction at rip
StepOutcomes(m) ==
    LET b1 == FetchByte(m, m.regs.rip)
        b2 == FetchByte(m, Add64(m.regs.rip, FromNat(1)))
    IN  IF b1 = 15 /\ b2 = 5 THEN Syscall(m)
        ELSE IF b1 = 255 /\ b2 = 224 THEN JmpRax(m)
        ELSE IF b1 = -1 THEN { Stop("SEGV", m, "fault", FALSE) }
        ELSE Undecoded(m)

\* the C string that starts at index i (1-based) of mem
CStr(mem, i) ==
    IF ByteAt(mem, i) = 0 THEN <<>>
    ELSE LET nul == CHOOSE k \in (i + 1)..(Len(mem) + 1) :
                        ByteAt(mem, k) = 0 /\ \A j \in i..(k - 1) : ByteAt(mem, j) # 0
         IN  SubSeq(mem, i, nul - 1)

\* the registers after the library's getenv has returned res to the
\* instruction at retaddr: the caller-saved registers are the callee's
AfterCall(r, res, retaddr) ==
    [r EXCEPT !.rax = res, !.rip = retaddr, !.rcx = Clobbered, !.rdx = Clobbered,
              !.rsi = Clobbered, !.rdi = Clobbered, !.r8 = Clobbered, !.r9 = Clobbered,
              !.r10 = Clobbered, !.r11 = Clobbered]

ContStop(sig, r, m, vm, tag, lookup, value) ==
    [sig |-> sig, regs |-> r, page |-> m.page, stack |-> m.stack, vmem |-> vm,
     tag |-> tag, lookup |-> lookup, value |-> value]

\* PTRACE_CONT: the target runs from rip until it stops.  At a CALL rel32 it
\* pushes the return address and runs the code at the destination: the
\* library's getenv when the destination is getenv, which looks the string
\* at rdi up in the environment (EnvName is set, to any of vals); anything
\* else otherwise (a fault, or code that happens to return).  Back at the
\* return address, a breakpoint stops it with SIGTRAP.
ContOutcomes(m, image, vals, tails, vm) ==
    UNION {
        LET r == m.regs
            pushed == [m EXCEPT !.stack =
                          IF r.rsp = StackTop THEN Bytes64(c.retaddr) ELSE m.stack]
            back(res) == [AfterCall(r, res, c.retaddr) EXCEPT
                             !.rip = IF c.trapped THEN Add64(c.retaddr, FromNat(1))
                                     ELSE c.retaddr]
            sig == IF c.trapped THEN "TRAP" ELSE "SEGV"
        IN  IF ~c.decoded
            THEN { ContStop("SEGV", r, m, vm, "fault", "none", <<>>) }
            ELSE IF c.dest = image.getenv /\ image.getenv # Zero64
            THEN IF c.name = EnvName
                 THEN { ContStop(sig, back(Add64(ValBase, FromNat(a))), pushed,
                                 ValueMemory(v, a, t), "getenv", "value", v) :
                            v \in vals, a \in 0..3, t \in tails }
                 ELSE { ContStop(sig, back(Zero64), pushed, vm, "getenv", "null", <<>>) }
            ELSE { ContStop("SEGV",
                            [r EXCEPT !.rip = c.dest, !.rsp = Sub64(r.rsp, FromNat(8))],
                            pushed, vm, "wild", "none", <<>>) }
                 \cup { ContStop(sig, back(res), pushed, vm, "wild", "none", <<>>) :
                            res \in {Zero64, WildAddr} }
        \* the instruction at rip as the processor reads it
        : c \in { LET b == [k \in 0..4 |-> FetchByte(m, Add64(m.regs.rip, FromNat(k)))]
                      decoded == b[0] = CallOpcode /\ \A k \in 1..4 : b[k] # -1
                      retaddr == Add64(m.regs.rip, FromNat(REL32_SZ))
                      nameOff == OffsetIn(m.regs.rdi, m.page.addr, PAGE_SIZE)
                  IN  [decoded |-> decoded,
                       retaddr |-> retaddr,
                       dest |-> IF decoded
                                THEN Add64(retaddr,
                                           SignExt32(b[1] + 256 * b[2], b[3] + 256 * b[4]))
                                ELSE Zero64,
                       trapped |-> FetchByte(m, retaddr) = TrapOpcode,
                       name |-> IF m.page.mapped /\ nameOff >= 0
                                THEN CStr(m.page.bytes, nameOff + 1) ELSE <<>>] } }

(***************************************************************************)
(* poke_text                                                               *)
(***************************************************************************)
\* a first check that lets every length through
LengthOk_any(len) == len >= 0

\* poke_text's first check
LengthOk(len) == len % WordSize = 0

\* poke_text(pid, where, new, old, len) on target memory m: every way the
\* call can end.  Words are written in order, each after a PTRACE_PEEKTEXT
\* of it when old is not NULL (capture); the call returns -1 at the first
\* request that fails and 0 after the last word.  A request fails when the
\* kernel refuses it (fault) or when the word is outside the memory the
\* model knows (the sixteen bytes of text, the scratch page).  Words behind
\* the end of the scratch page go to whatever the target has mapped there:
\* the request fails when that is nothing, and else the words are written
\* into that mapping (spill counts them).
poke_text(m, where, new, capture, old_in, len) ==
    UNION {
        LET n == len \div WordSize
            fit == Min(n, (f.size - f.off) \div WordSize)
            wrote(k) == IF k = 0 THEN f.mem
                        ELSE WriteAt(f.mem, f.off, SubSeq(new, 1, k * WordSize))
            kept(k) == IF capture /\ k > 0
                       THEN WriteAt(old_in, 0, ReadAt(f.mem, f.off, k * WordSize)) ELSE old_in
            end(rc, k, c, fault, msg) ==
                [rc |-> rc,
                 text |-> IF f.inText THEN wrote(k) ELSE m.text,
                 page |-> IF f.inPage /\ ~f.inText
                          THEN [m.page EXCEPT !.bytes = wrote(k)] ELSE m.page,
                 old |-> kept(c), ncap |-> IF capture THEN c ELSE 0, fault |-> fault,
                 msg |-> msg,
                 \* the PTRACE_PEEKTEXT and PTRACE_POKETEXT requests made
                 reqs |-> IF msg = "invalid len" THEN 0
                          ELSE IF rc = 0 THEN n + (IF capture THEN n ELSE 0)
                          ELSE k + (IF capture THEN c ELSE 0) + 1,
                 spill |-> IF rc = 0 THEN n - k ELSE 0]
        IN  IF ~LengthOk(len) THEN { end(-1, 0, 0, FALSE, "invalid len") }
            ELSE (IF fit = n THEN { end(0, n, n, FALSE, "") }
                  ELSE { end(-1, fit, fit, FALSE,
                             IF capture THEN "PTRACE_PEEKTEXT" ELSE "PTRACE_POKETEXT") }
                       \cup (IF f.inPage /\ ~f.inText
                             THEN { end(0, fit, fit, FALSE, "") } ELSE {}))
                 \cup { end(-1, j, j + 1, TRUE, "PTRACE_POKETEXT") : j \in 0..(fit - 1) }
                 \cup { end(-1, j, j, TRUE, "PTRACE_PEEKTEXT") :
                           j \in IF capture THEN 0..(fit - 1) ELSE {} }
        \* where the words are: in the text, in the scratch page, or nowhere
        : f \in { LET inText == OffsetIn(where, TextBase, 16) >= 0
                      inPage == m.page.mapped /\ OffsetIn(where, m.page.addr, PAGE_SIZE) >= 0
                  IN  [inText |-> inText,
                       inPage |-> inPage,
                       off |-> IF inText THEN OffsetIn(where, TextBase, 16)
                               ELSE IF inPage THEN OffsetIn(where, m.page.addr, PAGE_SIZE)
                               ELSE 0,
                       size |-> IF inText THEN 16 ELSE IF inPage THEN PAGE_SIZE ELSE 0,
                       mem |-> IF inText THEN m.text ELSE m.page.bytes] } }

Machine == [regs |-> tregs, text |-> text, page |-> page, stack |-> stack]

(***************************************************************************)
(* Initial state: main has not run, the target runs untraced.              *)
(***************************************************************************)
UninitRegs == Regs(Zero64, Zero64, Zero64)

Init ==
    /\ pc = "main"
    /\ argv \in ArgVectors
    /\ result = Running
    /\ pid = -1
    /\ env = <<>>
    /\ oldregs = UninitRegs
    /\ newregs = UninitRegs
    /\ rip = Zero64
    /\ old_word \in Garbage(WordSize)
    /\ new_word = Zeros(WordSize)
    /\ mmap_memory = Zero64
    /\ their_libc = Zero64
    /\ our_libc = Zero64
    /\ their_getenv = Zero64
    /\ new_text = <<>>
    /\ blocksize = 0
    /\ offs = Zero64
    /\ slen = 0
    /\ buf = <<>>
    /\ out = <<>>
    /\ err = <<>>
    /\ tregs \in BaseRegsSet
    /\ text \in BaseTexts
    /\ page = NoPage
    /\ stack = Zeros(WordSize)
    /\ vmem = <<>>
    /\ attached = FALSE
    /\ timage \in TargetImages
    /\ oimage \in OurImages
    /\ baseRegs = tregs
    /\ origText = text
    /\ faults = 0
    /\ opFailed = FALSE
    /\ hist = NoHist

(***************************************************************************)
(* Helpers of the actions.                                                 *)
(***************************************************************************)
\* the kernel refuses one request
Fault == faults < MaxFaults /\ faults' = faults + 1 /\ opFailed' = TRUE
Calm == UNCHANGED <<faults, opFailed>>
\* the target's own system call fails: no request of the controller does
Adverse == faults < MaxFaults /\ faults' = faults + 1 /\ UNCHANGED opFailed
\* a request that fails when failed is true
FaultIf(failed) == IF failed THEN Fault ELSE Calm

Say(msgs) == err' = err \o msgs
Return(r) == pc' = "done" /\ result' = Returned(r)
Goto(l) == pc' = l /\ UNCHANGED result

\* what /proc/sys/kernel/yama/ptrace_scope may hold
YamaFiles == {"nofile", "", "0\n", "1\n"}

\* check_yama: the messages it writes for a ptrace_scope file y
check_yama(y) ==
    IF y = "nofile" THEN <<>>
    ELSE (IF y = "" THEN <<"Could not read yama file">> ELSE <<>>)
         \o (IF y # "0\n" THEN <<"kernel.yama.ptrace_scope = " \o y, "sysctl kernel.yama.ptrace_scope=0">>
             ELSE <<>>)

\* PTRACE_DETACH with its result ignored: released (ok) or not
DetachIgnored(ok) ==
    /\ attached' = IF ok THEN FALSE ELSE attached
    /\ hist' = [hist EXCEPT !.detaches = @ + 1]

(***************************************************************************)
(* main (lines 442-493)                                                    *)
(***************************************************************************)
Main ==
    /\ pc = "main"
    /\ LET a == ParseArgs(argv, 1, -1, <<>>, FALSE)
       IN  IF a.exit
           THEN /\ Return(a.code)
                /\ Say(<<a.msg>>)
                /\ UNCHANGED <<pid, env>>
           ELSE /\ Goto("attach")
                /\ pid' = a.pid
                /\ env' = a.env
                /\ UNCHANGED err
    /\ UNCHANGED <<out, oldregs, newregs, rip, old_word, new_word, mmap_memory, their_libc,
                   our_libc, their_getenv, new_text, blocksize, offs, slen, buf,
                   tgtVars, envVars, faults, opFailed, hist>>

(***************************************************************************)
(* getenv_process (lines 139-440), statement by statement                  *)
(***************************************************************************)
\* lines 141-145: PTRACE_ATTACH
Attach ==
    /\ pc = "attach"
    /\ \/ /\ pid = TargetPid
          /\ attached' = TRUE
          /\ hist' = [hist EXCEPT !.attachedOnce = TRUE]
          /\ Goto("waitpid")
          /\ Calm
          /\ UNCHANGED err
       \/ /\ Fault
          /\ \E y \in YamaFiles : Say(<<"PTRACE_ATTACH">> \o check_yama(y))
          /\ Return(-1)
          /\ UNCHANGED <<attached, hist>>
    /\ UNCHANGED <<out, ctlVars, tregs, text, page, stack, vmem, envVars>>

\* lines 148-151: waitpid for the stop
Waitpid ==
    /\ pc = "waitpid"
    /\ \/ Goto("getregs0") /\ Calm /\ UNCHANGED err
       \/ Fault /\ Say(<<"wait">>) /\ Return(-1)
    /\ UNCHANGED <<out, ctlVars, tgtVars, envVars, hist>>

\* lines 154-186: save the registers, prepare the mmap call and the SYSCALL
\* word, whose last four bytes are never set
GetregsFirst ==
    /\ pc = "getregs0"
    /\ \/ /\ Calm
          /\ oldregs' = tregs
          /\ rip' = tregs.rip
          /\ newregs' = [tregs EXCEPT !.rax = FromNat(SYS_mmap), !.rdi = Zero64,
                                      !.rsi = FromNat(PAGE_SIZE),
                                      !.rdx = FromNat(PROT_READ_EXEC),
                                      !.r10 = FromNat(MAP_PRIVATE_ANONYMOUS),
                                      !.r8 = MinusOne64, !.r9 = Zero64]
          /\ \E g \in Garbage(4) : new_word' = <<15, 5, 255, 224>> \o g
          /\ Goto("poke_syscall")
          /\ UNCHANGED <<err, attached, hist>>
       \/ /\ Fault
          /\ Say(<<"PTRACE_GETREGS">>)
          /\ DetachIgnored(TRUE)
          /\ Return(-1)
          /\ UNCHANGED <<oldregs, rip, newregs, new_word>>
    /\ UNCHANGED <<out, pid, env, old_word, mmap_memory, their_libc, our_libc, their_getenv,
                   new_text, blocksize, offs, slen, buf, tregs, text, page, stack, vmem,
                   envVars>>

\* lines 188-190: write the SYSCALL word at rip, saving the old word
PokeSyscall ==
    /\ pc = "poke_syscall"
    /\ \E o \in poke_text(Machine, rip, new_word, TRUE, old_word, WordSize) :
          /\ FaultIf(o.fault)
          /\ text' = o.text
          /\ page' = o.page
          /\ old_word' = o.old
          /\ hist' = [hist EXCEPT !.captured = o.ncap > 0, !.patched = o.text # text,
                                  !.writes = @ \cup {Write(rip, WordSize, TRUE)}]
          /\ IF o.rc = 0 THEN Goto("setregs_mmap") /\ UNCHANGED err
             ELSE Goto("fail") /\ Say(<<o.msg>>)
    /\ UNCHANGED <<out, pid, env, oldregs, newregs, rip, new_word, mmap_memory, their_libc,
                   our_libc, their_getenv, new_text, blocksize, offs, slen, buf,
                   tregs, stack, vmem, attached, envVars>>

\* PTRACE_SETREGS of regs, then to on success and the failure path otherwise
Setregs(regs, to, event) ==
    \/ /\ Calm
       /\ tregs' = regs
       /\ hist' = [hist EXCEPT !.events = IF event = "" THEN @ ELSE Append(@, event)]
       /\ Goto(to)
       /\ UNCHANGED err
    \/ /\ Fault
       /\ Say(<<"PTRACE_SETREGS">>)
       /\ Goto("fail")
       /\ UNCHANGED <<tregs, hist>>

\* lines 193-196
SetregsMmap ==
    /\ pc = "setregs_mmap"
    /\ Setregs(newregs, "step_mmap", "")
    /\ UNCHANGED <<out, ctlVars, text, page, stack, vmem, attached, envVars>>

\* singlestep (lines 101-107) and do_wait (lines 83-99): the request fails,
\* or the target executes one instruction and stops; any stop but SIGTRAP,
\* and a failing wait, make singlestep return -1
singlestep(at, to) ==
    \/ \E o \in StepOutcomes(Machine) :
          /\ IF o.fault THEN Adverse ELSE Calm
          /\ tregs' = o.regs
          /\ page' = o.page
          /\ stack' = o.stack
          /\ hist' = [hist EXCEPT
                         !.mmapFailed = @ \/ o.tag = "mmap_failed",
                         !.secondStep = @ \/ at = "step_jmp",
                         !.events = IF at \in {"step_back", "step_munmap"} /\ o.sig = "TRAP"
                                    THEN Append(@, o.tag) ELSE @]
          /\ IF o.sig = "TRAP" THEN Goto(to) /\ UNCHANGED err
             ELSE Goto("fail") /\ Say(<<"PTRACE_SINGLESTEP unexpectedly got status">>)
    \/ /\ Fault
       /\ \E msg \in {"PTRACE_SINGLESTEP", "PTRACE_SINGLESTEP unexpectedly got status"} : Say(<<msg>>)
       /\ Goto("fail")
       /\ UNCHANGED <<tregs, page, stack, hist>>

\* lines 199-201: execute the SYSCALL (mmap)
StepMmap ==
    /\ pc = "step_mmap"
    /\ singlestep("step_mmap", "getregs_mmap")
    /\ UNCHANGED <<out, ctlVars, text, vmem, attached, envVars>>

\* lines 204-214: read the registers; rax is the address of the page
GetregsMmap ==
    /\ pc = "getregs_mmap"
    /\ \/ /\ Calm
          /\ newregs' = tregs
          /\ mmap_memory' = tregs.rax
          /\ IF tregs.rax = MinusOne64
             THEN Goto("fail") /\ Say(<<"failed to mmap">>)
             ELSE Goto("step_jmp") /\ UNCHANGED err
       \/ /\ Fault
          /\ Say(<<"PTRACE_GETREGS">>)
          /\ Return(-1)
          /\ UNCHANGED <<newregs, mmap_memory>>
    /\ UNCHANGED <<out, pid, env, oldregs, rip, old_word, new_word, their_libc, our_libc,
                   their_getenv, new_text, blocksize, offs, slen, buf, tgtVars, envVars, hist>>

\* lines 220-222: execute the JMP *%rax
StepJmp ==
    /\ pc = "step_jmp"
    /\ singlestep("step_jmp", "getregs_jmp")
    /\ UNCHANGED <<out, ctlVars, text, vmem, attached, envVars>>

\* lines 224-235: the target must now be at the page
GetregsJmp ==
    /\ pc = "getregs_jmp"
    /\ \/ /\ Calm
          /\ newregs' = tregs
          /\ IF tregs.rip = mmap_memory
             THEN Goto("resolve") /\ UNCHANGED err
             ELSE Goto("fail") /\ Say(<<"unexpectedly jumped">>)
       \/ /\ Fault
          /\ Say(<<"PTRACE_GETREGS">>)
          /\ Goto("fail")
          /\ UNCHANGED newregs
    /\ UNCHANGED <<out, pid, env, oldregs, rip, old_word, new_word, mmap_memory, their_libc,
                   our_libc, their_getenv, new_text, blocksize, offs, slen, buf, tgtVars,
                   envVars, hist>>

\* line 278: the smallest power of two that is at least 32 and at least n
RECURSIVE GrowBlock(_, _)
GrowBlock(b, n) == IF b < n THEN GrowBlock(2 * b, n) ELSE b

BlockSize(memsize) == GrowBlock(MinBlockSize, memsize)

\* lines 281-294: the block written to the page: CALL rel32, a breakpoint,
\* the name; calloc has zeroed the rest
Trampoline(name, rel, size) ==
    WriteAt(WriteAt(Zeros(size), 0, <<CallOpcode>> \o Bytes32(rel) \o <<TrapOpcode>>),
            REL32_SZ + 1, name)

\* their_libc + ((void *)getenv - our_libc), line 257
TheirGetenv(theirs, ours, getenv) == Add64(theirs, Sub64(getenv, ours))

\* lines 255-294: find the two libraries, place getenv in the target, build
\* the block.  fopen's result is not checked: getline on a null stream
\* crashes the controller.  compute_jmp leaves with exit(1).
Resolve ==
    /\ pc = "resolve"
    /\ \/ /\ Calm
          /\ LET tl == find_library(TargetImage(timage).maps, libc_string)
                 ol == find_library(OurImage(oimage).maps, libc_string)
                 tg == TheirGetenv(tl, ol, OurImage(oimage).getenv)
                 bs == BlockSize(Len(env) + REL32_SZ + 1)
                 cj == compute_jmp(mmap_memory, tg)
             IN  /\ their_libc' = tl
                 /\ our_libc' = ol
                 /\ their_getenv' = tg
                 /\ blocksize' = bs
                 /\ new_text' = Trampoline(env, cj.rel, bs)
                 /\ hist' = [hist EXCEPT !.nullBase = (tl = Zero64 \/ ol = Zero64)]
                 /\ IF cj.exit
                    THEN /\ pc' = "done"
                         /\ result' = Exited(1)
                         /\ Say(<<"cannot do relative jump">>)
                    ELSE Goto("poke_tramp") /\ UNCHANGED err
       \/ /\ Fault
          /\ pc' = "done"
          /\ result' = Crashed
          /\ UNCHANGED <<their_libc, our_libc, their_getenv, blocksize, new_text, hist, err>>
    /\ UNCHANGED <<out, pid, env, oldregs, newregs, rip, old_word, new_word, mmap_memory,
                   offs, slen, buf, tgtVars, envVars>>

\* a poke_text whose old text is not saved: its effect on the target
Poked(o) == text' = o.text /\ page' = o.page /\ FaultIf(o.fault)

\* lines 300-303: write the block to the page
PokeTramp ==
    /\ pc = "poke_tramp"
    /\ \E o \in poke_text(Machine, mmap_memory, new_text, FALSE, old_word, blocksize) :
          /\ Poked(o)
          /\ hist' = [hist EXCEPT !.trampWritten = @ \/ o.page # page,
                                  !.spilled = o.spill,
                                  !.writes = @ \cup {Write(mmap_memory, blocksize, FALSE)}]
          /\ IF o.rc = 0 THEN Goto("poke_prelude") /\ UNCHANGED err
             ELSE Goto("fail") /\ Say(<<o.msg>>)
    /\ UNCHANGED <<out, ctlVars, tregs, stack, vmem, attached, envVars>>

\* lines 305-307: write new_word (the SYSCALL word) at rip once more
PokePrelude ==
    /\ pc = "poke_prelude"
    /\ \E o \in poke_text(Machine, rip, new_word, FALSE, old_word, WordSize) :
          /\ Poked(o)
          /\ IF o.rc = 0 THEN Goto("setregs_call") /\ UNCHANGED err
             ELSE Goto("fail") /\ Say(<<o.msg>>)
    /\ hist' = [hist EXCEPT !.writes = @ \cup {Write(rip, WordSize, FALSE)}]
    /\ UNCHANGED <<out, ctlVars, tregs, stack, vmem, attached, envVars>>

\* lines 311-322: the arguments of getenv; rip is still the page's address
SetregsCall ==
    /\ pc = "setregs_call"
    /\ newregs' = [newregs EXCEPT !.rax = Zero64,
                                  !.rdi = Add64(mmap_memory, FromNat(REL32_SZ + 1))]
    /\ Setregs(newregs', "cont", "")
    /\ UNCHANGED <<out, pid, env, oldregs, rip, old_word, new_word, mmap_memory, their_libc,
                   our_libc, their_getenv, new_text, blocksize, offs, slen, buf,
                   text, page, stack, vmem, attached, envVars>>

\* lines 328-331: PTRACE_CONT, its result ignored, then do_wait.  When the
\* request fails the target stays stopped: wait blocks, or fails.
Cont ==
    /\ pc = "cont"
    /\ \/ \E o \in ContOutcomes(Machine, TargetImage(timage), Values, {<<90, 61, 49>>} \cap Tails, vmem) :
             /\ Calm
             /\ tregs' = o.regs
             /\ page' = o.page
             /\ stack' = o.stack
             /\ vmem' = o.vmem
             /\ hist' = [hist EXCEPT !.callExecuted = @ \/ o.tag \in {"getenv", "wild"},
                                     !.wildCall = @ \/ o.tag = "wild",
                                     !.lookup = o.lookup, !.value = o.value]
             /\ IF o.sig = "TRAP" THEN Goto("getregs_call") /\ UNCHANGED err
                ELSE Goto("fail") /\ Say(<<"PTRACE_CONT unexpectedly got status">>)
       \/ /\ Fault
          /\ \E blocks \in BOOLEAN :
                IF blocks THEN pc' = "done" /\ result' = Hung /\ UNCHANGED err
                ELSE Goto("fail") /\ Say(<<"wait">>)
          /\ UNCHANGED <<tregs, page, stack, vmem, hist>>
    /\ UNCHANGED <<out, ctlVars, text, attached, envVars>>

\* a null result that skipped the restoration as well as the copy
AfterLookup_skip(rax) == IF rax # Zero64 THEN "scan" ELSE "detach"

\* lines 338 and 358: a null result skips the copy, nothing else
AfterLookup(rax) == IF rax # Zero64 THEN "scan" ELSE "setregs_back"

\* lines 333-338: the result of getenv
GetregsCall ==
    /\ pc = "getregs_call"
    /\ \/ /\ Calm
          /\ newregs' = tregs
          /\ offs' = tregs.rax
          /\ Goto(AfterLookup(tregs.rax))
          /\ UNCHANGED err
       \/ /\ Fault
          /\ Say(<<"PTRACE_GETREGS">>)
          /\ Goto("fail")
          /\ UNCHANGED <<newregs, offs>>
    /\ UNCHANGED <<out, pid, env, oldregs, rip, old_word, new_word, mmap_memory, their_libc,
                   our_libc, their_getenv, new_text, blocksize, slen, buf, tgtVars,
                   envVars, hist>>

(***************************************************************************)
(* The copy of the value (lines 339-357).                                  *)
(***************************************************************************)
\* whether the kernel can read at address a: the model knows the page that
\* holds the value
Readable(a) == vmem # <<>> /\ OffsetIn(a, ValBase, PAGE_SIZE) >= 0

\* uint32_t data = ptrace(PTRACE_PEEKDATA, pid, a, NULL): the four bytes at
\* a; 0xffffffff when the request fails, which the code does not notice
PeekData(a, failed) ==
    IF failed THEN <<255, 255, 255, 255>>
    ELSE ReadAt(vmem, OffsetIn(a, ValBase, PAGE_SIZE), 4)

\* a test that looks at the first three bytes of the word only
HasNul_missLast(d) == d[1] = 0 \/ d[2] = 0 \/ d[3] = 0

\* line 342: data << 24, data << 16, data << 8 or data is below 0x1000000,
\* that is, one of the four bytes of data is zero
HasNul(d) == d[1] = 0 \/ d[2] = 0 \/ d[3] = 0 \/ d[4] = 0

\* one turn of the loop of lines 339-346 with the word d; after the break,
\* lines 347-349
ScanWord(d) ==
    /\ IF HasNul(d)
       THEN /\ slen' = OffsetIn(Add64(offs, FromNat(4)), newregs.rax, PAGE_SIZE)
            /\ \E g \in Garbage(slen' + 1) : buf' = g
            /\ offs' = newregs.rax
            /\ Goto("copy")
       ELSE /\ offs' = Add64(offs, FromNat(4))
            /\ Goto("scan")
            /\ UNCHANGED <<slen, buf>>
    /\ UNCHANGED <<out, err, pid, env, oldregs, newregs, rip, old_word, new_word,
                   mmap_memory, their_libc, our_libc, their_getenv, new_text, blocksize,
                   tgtVars, envVars, hist>>

ScanOk == pc = "scan" /\ Readable(offs) /\ Calm /\ ScanWord(PeekData(offs, FALSE))

ScanFault == pc = "scan" /\ Readable(offs) /\ Fault /\ ScanWord(PeekData(offs, TRUE))

\* every request fails where nothing is mapped: the loop does not end
ScanWild ==
    /\ pc = "scan"
    /\ ~Readable(offs)
    /\ pc' = "done"
    /\ result' = Hung
    /\ opFailed' = TRUE
    /\ UNCHANGED <<out, err, ctlVars, tgtVars, envVars, faults, hist>>

\* the index i of the loop of lines 350-354
CopyIndex == OffsetIn(offs, newregs.rax, PAGE_SIZE) \div 4

\* one turn of the loop of lines 350-354 with the word d
CopyWord(d) ==
    /\ buf' = WriteAt(buf, 4 * CopyIndex, d)
    /\ offs' = Add64(offs, FromNat(4))
    /\ Goto("copy")
    /\ UNCHANGED <<out, err, pid, env, oldregs, newregs, rip, old_word, new_word,
                   mmap_memory, their_libc, our_libc, their_getenv, new_text, blocksize,
                   slen, tgtVars, envVars, hist>>

CopyOk == pc = "copy" /\ CopyIndex < slen \div 4 /\ Calm /\ CopyWord(PeekData(offs, FALSE))

CopyFault == pc = "copy" /\ CopyIndex < slen \div 4 /\ Fault /\ CopyWord(PeekData(offs, TRUE))

\* what printf("%s\n", b) writes: the bytes of b up to its first NUL and a
\* newline; when b holds no NUL, whatever follows it in the heap
Printed(b) ==
    { CStr(b, 1) \o g \o <<10>> :
        g \in IF \E i \in 1..Len(b) : b[i] = 0 THEN { <<>> } ELSE { <<>>, <<170>> } }

\* lines 355-356, after the loop
Printf ==
    /\ pc = "copy"
    /\ CopyIndex >= slen \div 4
    /\ \E p \in Printed(buf) : out' = out \o p
    /\ Goto("setregs_back")
    /\ UNCHANGED <<err, ctlVars, tgtVars, envVars, faults, opFailed, hist>>

(***************************************************************************)
(* The way back (lines 358-432) and the failure path (lines 434-439).      *)
(***************************************************************************)
\* lines 358-362: rax is where the JMP *%rax shall go
SetregsBack ==
    /\ pc = "setregs_back"
    /\ newregs' = [newregs EXCEPT !.rax = rip]
    /\ Setregs(newregs', "poke_jmpback", "")
    /\ UNCHANGED <<out, pid, env, oldregs, rip, old_word, new_word, mmap_memory, their_libc,
                   our_libc, their_getenv, new_text, blocksize, offs, slen, buf,
                   text, page, stack, vmem, attached, envVars>>

\* lines 364-366: JMP *%rax written where the target stopped (newregs.rip);
\* the result of poke_text is not looked at
PokeJmpback ==
    /\ pc = "poke_jmpback"
    /\ new_word' = [new_word EXCEPT ![1] = 255, ![2] = 224]
    /\ \E o \in poke_text(Machine, newregs.rip, new_word', FALSE, old_word, WordSize) :
          /\ Poked(o)
          /\ Say(IF o.rc = 0 THEN <<>> ELSE <<o.msg>>)
    /\ hist' = [hist EXCEPT !.writes = @ \cup {Write(newregs.rip, WordSize, FALSE)}]
    /\ Goto("step_back")
    /\ UNCHANGED <<out, pid, env, oldregs, newregs, rip, old_word, mmap_memory, their_libc,
                   our_libc, their_getenv, new_text, blocksize, offs, slen, buf,
                   tregs, stack, vmem, attached, envVars>>

\* lines 371-373: execute the JMP *%rax
StepBack ==
    /\ pc = "step_back"
    /\ singlestep("step_back", "getregs_back")
    /\ UNCHANGED <<out, ctlVars, text, vmem, attached, envVars>>

\* lines 374-387: the target must be back at rip
GetregsBack ==
    /\ pc = "getregs_back"
    /\ \/ /\ Calm
          /\ newregs' = tregs
          /\ IF tregs.rip = rip
             THEN Goto("setregs_munmap") /\ UNCHANGED err
             ELSE Goto("fail") /\ Say(<<"unexpectedly jumped">>)
       \/ /\ Fault
          /\ Say(<<"PTRACE_GETREGS">>)
          /\ Goto("fail")
          /\ UNCHANGED newregs
    /\ UNCHANGED <<out, pid, env, oldregs, rip, old_word, new_word, mmap_memory, their_libc,
                   our_libc, their_getenv, new_text, blocksize, offs, slen, buf, tgtVars,
                   envVars, hist>>

\* arguments of munmap whose length is that of the block, not of the page
SetregsMunmap_block ==
    /\ pc = "setregs_munmap"
    /\ newregs' = [newregs EXCEPT !.rax = FromNat(SYS_munmap), !.rdi = mmap_memory,
                                  !.rsi = FromNat(blocksize)]
    /\ Setregs(newregs', "step_munmap", "")
    /\ UNCHANGED <<out, pid, env, oldregs, rip, old_word, new_word, mmap_memory, their_libc,
                   our_libc, their_getenv, new_text, blocksize, offs, slen, buf,
                   text, page, stack, vmem, attached, envVars>>

\* lines 390-396: the arguments of munmap
SetregsMunmap ==
    /\ pc = "setregs_munmap"
    /\ newregs' = [newregs EXCEPT !.rax = FromNat(SYS_munmap), !.rdi = mmap_memory,
                                  !.rsi = FromNat(PAGE_SIZE)]
    /\ Setregs(newregs', "step_munmap", "")
    /\ UNCHANGED <<out, pid, env, oldregs, rip, old_word, new_word, mmap_memory, their_libc,
                   our_libc, their_getenv, new_text, blocksize, offs, slen, buf,
                   text, page, stack, vmem, attached, envVars>>

\* a step that is not made: the controller goes on as if the target had
\* executed the SYSCALL
StepMunmap_skip ==
    /\ pc = "step_munmap"
    /\ Calm
    /\ Goto("getregs_munmap")
    /\ UNCHANGED <<out, err, ctlVars, tgtVars, envVars, hist>>

\* lines 402-404: execute the SYSCALL (munmap)
StepMunmap ==
    /\ pc = "step_munmap"
    /\ singlestep("step_munmap", "getregs_munmap")
    /\ UNCHANGED <<out, ctlVars, text, vmem, attached, envVars>>

\* lines 405-408
GetregsMunmap ==
    /\ pc = "getregs_munmap"
    /\ \/ /\ Calm
          /\ newregs' = tregs
          /\ Goto("poke_restore")
          /\ UNCHANGED err
       \/ /\ Fault
          /\ Say(<<"PTRACE_GETREGS">>)
          /\ Goto("fail")
          /\ UNCHANGED newregs
    /\ UNCHANGED <<out, pid, env, oldregs, rip, old_word, new_word, mmap_memory, their_libc,
                   our_libc, their_getenv, new_text, blocksize, offs, slen, buf, tgtVars,
                   envVars, hist>>

\* line 414: the old word back at rip; the result is not looked at
PokeRestore ==
    /\ pc = "poke_restore"
    /\ \E o \in poke_text(Machine, rip, old_word, FALSE, old_word, WordSize) :
          /\ Poked(o)
          /\ Say(IF o.rc = 0 THEN <<>> ELSE <<o.msg>>)
          /\ hist' = [hist EXCEPT !.restores = @ + 1,
                                  !.writes = @ \cup {Write(rip, WordSize, FALSE)},
                                  !.events = Append(@, "text")]
    /\ Goto("setregs_old")
    /\ UNCHANGED <<out, ctlVars, tregs, stack, vmem, attached, envVars>>

\* lines 419-422: the old registers back
SetregsOld ==
    /\ pc = "setregs_old"
    /\ Setregs(oldregs, "detach", "regs")
    /\ UNCHANGED <<out, ctlVars, text, page, stack, vmem, attached, envVars>>

\* lines 428-432: PTRACE_DETACH, and return 0
Detach ==
    /\ pc = "detach"
    /\ \/ /\ Calm
          /\ attached' = FALSE
          /\ hist' = [hist EXCEPT !.detaches = @ + 1, !.events = Append(@, "detach")]
          /\ Return(0)
          /\ UNCHANGED err
       \/ /\ Fault
          /\ hist' = [hist EXCEPT !.detaches = @ + 1]
          /\ Say(<<"PTRACE_DETACH">>)
          /\ Goto("fail")
          /\ UNCHANGED attached
    /\ UNCHANGED <<out, ctlVars, tregs, text, page, stack, vmem, envVars>>

\* lines 434-439: the old word back at rip (result not looked at),
\* PTRACE_DETACH (a failure is reported, no more), return 1
Fail ==
    /\ pc = "fail"
    /\ \E o \in poke_text(Machine, rip, old_word, FALSE, old_word, WordSize), released \in BOOLEAN :
          LET n == (IF o.fault THEN 1 ELSE 0) + (IF released THEN 0 ELSE 1)
          IN  /\ faults + n <= MaxFaults
              /\ faults' = faults + n
              /\ opFailed' = (opFailed \/ n > 0)
              /\ text' = o.text
              /\ page' = o.page
              /\ attached' = IF released THEN FALSE ELSE attached
              /\ hist' = [hist EXCEPT !.detaches = @ + 1, !.restores = @ + 1,
                                      !.writes = @ \cup {Write(rip, WordSize, FALSE)}]
              /\ Say((IF o.rc = 0 THEN <<>> ELSE <<o.msg>>)
                     \o (IF released THEN <<>> ELSE <<"PTRACE_DETACH">>))
    /\ Return(1)
    /\ UNCHANGED <<out, ctlVars, tregs, stack, vmem, envVars>>

Next ==
    \/ Main \/ Attach \/ Waitpid \/ GetregsFirst \/ PokeSyscall \/ SetregsMmap
    \/ StepMmap \/ GetregsMmap \/ StepJmp \/ GetregsJmp \/ Resolve \/ PokeTramp
    \/ PokePrelude \/ SetregsCall \/ Cont \/ GetregsCall
    \/ ScanOk \/ ScanFault \/ ScanWild \/ CopyOk \/ CopyFault \/ Printf
    \/ SetregsBack \/ PokeJmpback \/ StepBack \/ GetregsBack \/ SetregsMunmap
    \/ StepMunmap \/ GetregsMunmap \/ PokeRestore \/ SetregsOld \/ Detach \/ Fail

Spec == Init /\ [][Next]_vars

Done == pc = "done"

(***************************************************************************)
(* The copy of the value on its own: the controller stands at line 339     *)
(* with getenv's result in newregs.rax and the target's memory readable.   *)
(***************************************************************************)
InitCopy ==
    /\ pc = "scan"
    /\ argv = <<OptP(TargetPid), OptE(EnvName)>>
    /\ result = Running
    /\ pid = TargetPid
    /\ env = EnvName
    /\ rip = TextBase
    /\ old_word = Zeros(WordSize)
    /\ new_word = Zeros(WordSize)
    /\ mmap_memory = Zero64
    /\ their_libc = Zero64
    /\ our_libc = Zero64
    /\ their_getenv = Zero64
    /\ new_text = <<>>
    /\ blocksize = 0
    /\ slen = 0
    /\ buf = <<>>
    /\ out = <<>>
    /\ err = <<>>
    /\ text \in BaseTexts
    /\ page = NoPage
    /\ stack = Zeros(WordSize)
    /\ attached = TRUE
    /\ timage = "dynamic"
    /\ oimage = "pic"
    /\ baseRegs \in BaseRegsSet
    /\ oldregs = baseRegs
    /\ origText = text
    /\ faults = 0
    /\ opFailed = FALSE
    /\ \E v \in Values \cup LongValues, a \in 0..3, t \in Tails :
          /\ vmem = ValueMemory(v, a, t)
          /\ tregs = AfterCall(baseRegs, Add64(ValBase, FromNat(a)), TextBase)
          /\ hist = [NoHist EXCEPT !.lookup = "value", !.value = v]
    /\ newregs = tregs
    /\ offs = tregs.rax

NextCopy == ScanOk \/ CopyOk \/ Printf

SpecCopy == InitCopy /\ [][NextCopy]_vars

(***************************************************************************)
(* How a run ended: the controller returned from main or called exit, with *)
(* a non-zero status.                                                      *)
(***************************************************************************)
Ended == Done /\ result.how \in {"return", "exit"}

Failed == Ended /\ result.status # 0

\* the five steps of lines 358-432: the jump back and the munmap as the
\* target executed them, the write of the old text, the old registers and
\* the detach as the controller made them
RestorationSequence == <<"jmp", "munmap", "text", "regs", "detach">>

(***************************************************************************)
(* C1: whenever getenv_process returns 0, the target's register file is    *)
(* the one read right after attach and the sixteen bytes at the old        *)
(* instruction pointer are what they were before the attach.               *)
(***************************************************************************)
C1_ReturnZeroRestored ==
    (Done /\ hist.attachedOnce /\ result = Returned(0))
        => (tregs = baseRegs /\ text = origText)

(***************************************************************************)
(* C2: every failure after the site at rip was patched ends with the saved *)
(* bytes written back at rip before the controller ends.                   *)
(***************************************************************************)
C2_FailureWritesBack ==
    (Failed /\ hist.patched) => (hist.restores > 0 /\ (~opFailed => text = origText))

(***************************************************************************)
(* C3: once PTRACE_ATTACH has succeeded, every way the controller ends has *)
(* issued PTRACE_DETACH.                                                   *)
(***************************************************************************)
C3_AlwaysDetached ==
    (Ended /\ hist.attachedOnce) => hist.detaches > 0

(***************************************************************************)
(* C4: at every PTRACE_DETACH the registers last installed in the target   *)
(* are the ones read right after the first stop.                           *)
(***************************************************************************)
C4_DetachWithOldRegs ==
    [][hist'.detaches > hist.detaches => tregs' = baseRegs]_vars

(***************************************************************************)
(* C5: for every value getenv returns, the scan stops at the first four    *)
(* bytes that hold a NUL, counted from the start of the value, and what    *)
(* reaches standard output is the value and a newline: no byte of the      *)
(* value is lost, no byte behind its terminator is printed.                *)
(***************************************************************************)
\* the word of the value, counted from its start, that holds its terminator
LastWord == Len(hist.value) \div 4

C5_CopyExact ==
    /\ pc = "scan" => OffsetIn(offs, newregs.rax, PAGE_SIZE) \in { 4 * k : k \in 0..LastWord }
    /\ pc = "copy" => slen = 4 * (LastWord + 1)
    /\ pc = "setregs_back" => out = hist.value \o <<10>>

\* a value of 257 bytes that starts three bytes behind a multiple of four
\* and has other bytes behind its terminator has been printed
C5_Witness ==
    /\ pc = "setregs_back"
    /\ Len(hist.value) = 257
    /\ newregs.rax = Add64(ValBase, FromNat(3))
    /\ ByteAt(vmem, 3 + 257 + 2) # 0
    /\ out = hist.value \o <<10>>

(***************************************************************************)
(* C6: when getenv returns null, nothing is written to standard output,    *)
(* and, every request succeeding, the whole restoration is done (jump      *)
(* back, munmap, old text, old registers, detach) and the exit code is 0.  *)
(***************************************************************************)
C6_AbsentVariable ==
    hist.lookup = "null" =>
        /\ out = <<>>
        /\ pc \notin {"scan", "copy"}
        /\ (Done /\ ~opFailed) =>
              /\ result = Returned(0)
              /\ hist.events = RestorationSequence
              /\ ~page.mapped
              /\ text = origText
              /\ tregs = baseRegs
              /\ ~attached

\* a lookup of a name the target has not set has ended
C6_Witness ==
    /\ Done
    /\ hist.lookup = "null"
    /\ env # EnvName
    /\ result = Returned(0)
    /\ hist.events = RestorationSequence
    /\ out = <<>>

(***************************************************************************)
(* C7: the exit code is 0 or 1, whatever failed: 1 on every argument error *)
(* and on every failure of the engine, a refused attach included.          *)
(***************************************************************************)
C7_ExitCodeZeroOrOne ==
    Ended => result.status \in {0, 1}

(***************************************************************************)
(* C8: a request that failed sends the controller to the failure path at   *)
(* once, and the controller never returns 0 after one.                     *)
(***************************************************************************)
C8_NoFailureIgnored ==
    opFailed => (pc \in {"fail", "done"} /\ result # Returned(0))

(***************************************************************************)
(* C9: when the remote mmap failed, with whatever error in rax, the second *)
(* single-step, the jump through rax, is not made.                         *)
(***************************************************************************)
C9_MmapFailureSeen ==
    hist.mmapFailed => ~hist.secondStep

(***************************************************************************)
(* C10: when find_library finds no line for the C library, in the target's *)
(* maps or in the controller's own, the engine fails: no trampoline is     *)
(* written and the target is made to execute no call.                      *)
(***************************************************************************)
C10_NoLibraryNoCall ==
    hist.nullBase => (pc \in {"fail", "done"} /\ ~hist.trampWritten /\ ~hist.callExecuted)

(***************************************************************************)
(* find_library on its own: the maps file is any sequence of at most       *)
(* MaxLines of the entries below, and timage holds it as the sequence of   *)
(* their numbers.                                                          *)
(***************************************************************************)
MaxLines == 3

PathNested ==
    <<"/", "l", "i", "b", "c", "s", "/", "l", "i", "b", "c", ".", "s", "o", ".", "6">>
PathDashed == <<"/", "l", "i", "b", "/", "l", "i", "b", "c", "-", "2", ".", "s", "o">>

\* the entries a maps file is made of: start and end are the twelve
\* hexadecimal digits the kernel prints
MapsEntries ==
    << [start |-> <<5, 5, 13, 0, 10, 3, 12, 0, 1, 0, 0, 0>>,
        end |-> <<5, 5, 13, 0, 10, 3, 12, 0, 2, 0, 0, 0>>, perms |-> Perm_rx, path |-> PathExe],
       [start |-> <<7, 15, 3, 10, 1, 12, 0, 0, 0, 0, 0, 0>>,
        end |-> <<7, 15, 3, 10, 1, 12, 0, 0, 1, 0, 0, 0>>, perms |-> Perm_rx, path |-> PathCool],
       [start |-> <<7, 15, 3, 10, 1, 12, 2, 0, 0, 0, 0, 0>>,
        end |-> <<7, 15, 3, 10, 1, 12, 2, 2, 8, 0, 0, 0>>, perms |-> Perm_r, path |-> PathLibc],
       [start |-> <<7, 15, 3, 10, 1, 12, 2, 2, 8, 0, 0, 0>>,
        end |-> <<7, 15, 3, 10, 1, 12, 3, 11, 13, 0, 0, 0>>, perms |-> Perm_rx, path |-> PathLibc],
       [start |-> <<7, 15, 3, 10, 1, 12, 4, 0, 0, 0, 0, 0>>,
        end |-> <<7, 15, 3, 10, 1, 12, 5, 0, 0, 0, 0, 0>>, perms |-> Perm_rx, path |-> PathNested],
       [start |-> <<7, 15, 3, 10, 1, 12, 6, 0, 0, 0, 0, 0>>,
        end |-> <<7, 15, 3, 10, 1, 12, 7, 0, 0, 0, 0, 0>>, perms |-> Perm_rx, path |-> PathDashed] >>

\* the text of the file whose entries have the numbers ns
MapsText(ns) ==
    [i \in 1..Len(ns) |->
        MapsLine(MapsEntries[ns[i]].start, MapsEntries[ns[i]].end,
                 MapsEntries[ns[i]].perms, MapsEntries[ns[i]].path)]

MapsFiles == SeqsUpTo(1..Len(MapsEntries), MaxLines)

InitFind ==
    /\ pc = "find_library"
    /\ argv = <<OptP(TargetPid), OptE(EnvName)>>
    /\ result = Running
    /\ pid = TargetPid
    /\ env = EnvName
    /\ rip = TextBase
    /\ old_word = Zeros(WordSize)
    /\ new_word = Zeros(WordSize)
    /\ mmap_memory = Zero64
    /\ their_libc = Zero64
    /\ our_libc = Zero64
    /\ their_getenv = Zero64
    /\ new_text = <<>>
    /\ blocksize = 0
    /\ slen = 0
    /\ buf = <<>>
    /\ out = <<>>
    /\ err = <<>>
    /\ text \in BaseTexts
    /\ page = NoPage
    /\ stack = Zeros(WordSize)
    /\ vmem = <<>>
    /\ attached = TRUE
    /\ timage \in MapsFiles
    /\ oimage = "pic"
    /\ baseRegs \in BaseRegsSet
    /\ oldregs = baseRegs
    /\ newregs = baseRegs
    /\ tregs = baseRegs
    /\ offs = Zero64
    /\ origText = text
    /\ faults = 0
    /\ opFailed = FALSE
    /\ hist = NoHist

\* line 255: void *their_libc = find_library(pid, libc_string)
FindLibrary ==
    /\ pc = "find_library"
    /\ their_libc' = find_library(MapsText(timage), libc_string)
    /\ pc' = "found"
    /\ UNCHANGED <<result, out, err, pid, env, oldregs, newregs, rip, old_word, new_word,
                   mmap_memory, our_libc, their_getenv, new_text, blocksize, offs, slen,
                   buf, tgtVars, envVars, faults, opFailed, hist>>

NextFind == FindLibrary

SpecFind == InitFind /\ [][NextFind]_vars

(***************************************************************************)
(* C11: find_library returns the start address of the first line whose     *)
(* perms are r-xp and whose path holds an occurrence of the needle that no *)
(* lowercase letter follows, and NULL when there is no such line; a later  *)
(* occurrence in the path counts when an earlier one does not.             *)
(***************************************************************************)
\* an occurrence of needle in path that no lowercase letter follows
QualifiesAt(path, needle, i) ==
    MatchesAt(path, needle, i) /\ CharAt(path, i + Len(needle)) \notin LowerCase

Qualifies(e, needle) ==
    e.perms = Perm_rx /\ \E i \in 1..Len(e.path) : QualifiesAt(e.path, needle, i)

\* the address twelve hexadecimal digits stand for
DigitsValue(d) ==
    <<((d[9] * 16 + d[10]) * 16 + d[11]) * 16 + d[12],
      ((d[5] * 16 + d[6]) * 16 + d[7]) * 16 + d[8],
      ((d[1] * 16 + d[2]) * 16 + d[3]) * 16 + d[4], 0>>

FirstQualifying(ns, needle) ==
    IF \E i \in 1..Len(ns) : Qualifies(MapsEntries[ns[i]], needle)
    THEN DigitsValue(MapsEntries[ns[CHOOSE i \in 1..Len(ns) :
                /\ Qualifies(MapsEntries[ns[i]], needle)
                /\ \A j \in 1..(i - 1) : ~Qualifies(MapsEntries[ns[j]], needle)]].start)
    ELSE Zero64

C11_FirstQualifyingLine ==
    pc = "found" => their_libc = FirstQualifying(timage, libc_string)

(***************************************************************************)
(* poke_text on its own, next to the program: a call with any length up to *)
(* MaxPokeLen on the text at rip, the old text saved or not.               *)
(***************************************************************************)
MaxPokeLen == 17
MaxNameLen == 40

InitPoke ==
    \/ Init
    \/ /\ pc = "poke_text"
       /\ argv = <<OptP(TargetPid), OptE(EnvName)>>
       /\ result = Running
       /\ pid = TargetPid
       /\ env = EnvName
       /\ rip = TextBase
       /\ old_word \in Garbage(WordSize)
       /\ new_word = Zeros(WordSize)
       /\ mmap_memory = Zero64
       /\ their_libc = Zero64
       /\ our_libc = Zero64
       /\ their_getenv = Zero64
       /\ new_text = <<>>
       /\ blocksize = 0
       /\ slen = 0
       /\ buf = <<>>
       /\ out = <<>>
       /\ err = <<>>
       /\ text \in BaseTexts
       /\ page = NoPage
       /\ stack = Zeros(WordSize)
       /\ vmem = <<>>
       /\ attached = TRUE
       /\ timage = "dynamic"
       /\ oimage = "pic"
       /\ baseRegs \in BaseRegsSet
       /\ oldregs = baseRegs
       /\ newregs = baseRegs
       /\ tregs = baseRegs
       /\ offs = Zero64
       /\ origText = text
       /\ faults = 0
       /\ opFailed = FALSE
       /\ hist = NoHist

\* lines 56-81: poke_text(pid, rip, new_text, old or NULL, len), the new
\* text being len bytes 0x90 and old a zeroed buffer of len bytes
PokeAny ==
    /\ pc = "poke_text"
    /\ \E len \in 0..MaxPokeLen, capture \in BOOLEAN :
          \E o \in poke_text(Machine, rip, [i \in 1..len |-> 144], capture, Zeros(len), len) :
             /\ FaultIf(o.fault)
             /\ blocksize' = len
             /\ new_text' = [i \in 1..len |-> 144]
             /\ text' = o.text
             /\ page' = o.page
             /\ old_word' = o.old
             /\ result' = Returned(o.rc)
             /\ hist' = [hist EXCEPT !.requests = o.reqs,
                                     !.writes = @ \cup {Write(rip, len, capture)}]
             /\ Say(IF o.rc = 0 THEN <<>> ELSE <<o.msg>>)
    /\ pc' = "poked"
    /\ UNCHANGED <<out, pid, env, oldregs, newregs, rip, new_word, mmap_memory, their_libc,
                   our_libc, their_getenv, offs, slen, buf, tregs, stack, vmem, attached,
                   envVars>>

NextPoke == Next \/ PokeAny

SpecPoke == InitPoke /\ [][NextPoke]_vars

(***************************************************************************)
(* C12: every text write of the engine has a length that is a multiple of  *)
(* the word size 8, the block of the trampoline for every length of the    *)
(* name included, and poke_text with another length returns -1 before it   *)
(* makes any PTRACE_PEEKTEXT or PTRACE_POKETEXT request.                   *)
(***************************************************************************)
C12_WordMultiples ==
    /\ pc # "poked" => \A w \in hist.writes : w.len % 8 = 0
    /\ \A n \in 0..MaxNameLen : BlockSize(n + REL32_SZ + 1) % 8 = 0
    /\ (pc = "poked" /\ blocksize % 8 # 0) =>
          /\ result = Returned(-1)
          /\ hist.requests = 0
          /\ text = origText
          /\ old_word = Zeros(blocksize)

\* poke_text was called with 12 bytes and asked for the old text
C12_Witness ==
    /\ pc = "poked"
    /\ Write(rip, 12, TRUE) \in hist.writes
    /\ result = Returned(-1)
    /\ hist.requests = 0

(***************************************************************************)
(* C13: a run that returns 0 has made the five steps of the restoration in *)
(* this order, each once: the single-step that jumps back to rip, the      *)
(* remote munmap, the write of the old text at rip, the old registers, the *)
(* detach.  The page is unmapped before the detach, and once the old text  *)
(* has been written the target is not made to execute anything.           *)
(***************************************************************************)
Logged(e) == \E i \in 1..Len(hist.events) : hist.events[i] = e

C13_RestorationOrder ==
    /\ (Done /\ hist.attachedOnce /\ result = Returned(0)) =>
          (hist.events = RestorationSequence /\ ~page.mapped)
    /\ pc = "detach" => (hist.events = SubSeq(RestorationSequence, 1, 4) /\ ~page.mapped)
    /\ Logged("text") => pc \in {"setregs_old", "detach", "fail", "done"}

\* a lookup that found a value has ended with the five steps made
C13_Witness ==
    /\ Done
    /\ result = Returned(0)
    /\ hist.lookup = "value"
    /\ hist.events = RestorationSequence
    /\ ~page.mapped
    /\ ~attached

(***************************************************************************)
(* C14: when the controller single-steps the remote munmap, the target's   *)
(* rip is the old rip and the two bytes there are 0f 05, the SYSCALL that  *)
(* was written for the mmap, so that the one instruction executed is       *)
(* munmap(mmap_memory, PAGE_SIZE).                                         *)
(***************************************************************************)
C14_MunmapAtBaseline ==
    /\ pc = "step_munmap" =>
          /\ tregs.rip = rip
          /\ rip = baseRegs.rip
          /\ SubSeq(text, 1, 2) = <<15, 5>>
          /\ tregs.rax = FromNat(11)
          /\ tregs.rdi = mmap_memory
          /\ tregs.rsi = FromNat(4096)
          /\ page.mapped /\ page.addr = mmap_memory
    /\ pc = "getregs_munmap" =>
          /\ ~page.mapped
          /\ hist.events = <<"jmp", "munmap">>
          /\ tregs.rip = Add64(rip, FromNat(2))

\* the munmap has been executed
C14_Witness ==
    /\ pc = "getregs_munmap"
    /\ hist.events = <<"jmp", "munmap">>
    /\ ~page.mapped
    /\ tregs.rax = Zero64

(***************************************************************************)
(* The program up to the call, for names of every length up to MaxNameLen  *)
(* and for names about as long as the page.                                *)
(***************************************************************************)
NameOfLength(n) == [i \in 1..n |-> 65 + (i % 26)]

\* 4090: the name ends with the page; 4091: the block is two pages
LongNameLengths == {PAGE_SIZE - REL32_SZ - 1, PAGE_SIZE - REL32_SZ}

NameVectors ==
    { <<OptP(TargetPid), OptE(NameOfLength(n))>> : n \in (1..MaxNameLen) \cup LongNameLengths }

InitTramp ==
    /\ pc = "main"
    /\ argv \in NameVectors
    /\ result = Running
    /\ pid = -1
    /\ env = <<>>
    /\ oldregs = UninitRegs
    /\ newregs = UninitRegs
    /\ rip = Zero64
    /\ old_word \in Garbage(WordSize)
    /\ new_word = Zeros(WordSize)
    /\ mmap_memory = Zero64
    /\ their_libc = Zero64
    /\ our_libc = Zero64
    /\ their_getenv = Zero64
    /\ new_text = <<>>
    /\ blocksize = 0
    /\ offs = Zero64
    /\ slen = 0
    /\ buf = <<>>
    /\ out = <<>>
    /\ err = <<>>
    /\ tregs \in BaseRegsSet
    /\ text \in BaseTexts
    /\ page = NoPage
    /\ stack = Zeros(WordSize)
    /\ vmem = <<>>
    /\ attached = FALSE
    /\ timage = "dynamic"
    /\ oimage = "pic"
    /\ baseRegs = tregs
    /\ origText = text
    /\ faults = 0
    /\ opFailed = FALSE
    /\ hist = NoHist

NextTramp ==
    \/ Main \/ Attach \/ Waitpid \/ GetregsFirst \/ PokeSyscall \/ SetregsMmap
    \/ StepMmap \/ GetregsMmap \/ StepJmp \/ GetregsJmp \/ Resolve \/ PokeTramp
    \/ PokePrelude \/ SetregsCall \/ Fail

SpecTramp == InitTramp /\ [][NextTramp]_vars

(***************************************************************************)
(* C15: for every name, the block written at the page holds e8 and the     *)
(* rel32 at offsets 0..4, cc at offset 5 and the name from offset 6 on,    *)
(* with a NUL behind it inside the block, so that rdi = page + 6 points to *)
(* a NUL-terminated copy of the name.                                      *)
(***************************************************************************)
C15_BlockLayout ==
    pc = "cont" =>
        /\ SubSeq(new_text, 1, 6) =
              <<232>> \o Bytes32(Sub64(their_getenv, Add64(mmap_memory, FromNat(5)))) \o <<204>>
        /\ SubSeq(new_text, 7, 6 + Len(env)) = env
        /\ Len(env) + 7 <= blocksize
        /\ new_text[Len(env) + 7] = 0
        /\ tregs.rdi = Add64(mmap_memory, FromNat(6))
        /\ SubSeq(page.bytes, 1, Min(blocksize, PAGE_SIZE)) = SubSeq(new_text, 1, Min(blocksize, PAGE_SIZE))

(***************************************************************************)
(* C16: the rel32 written into the CALL satisfies                          *)
(* page + 5 + rel32 = their_libc + (getenv - our_libc) in 64-bit           *)
(* arithmetic whenever that difference fits a signed 32-bit integer; when  *)
(* it does not, nothing is written to the page and the target is not made  *)
(* to execute a call.                                                      *)
(***************************************************************************)
\* the symbol's address as line 257 computes it, and its distance from the
\* end of the CALL
WantedSymbol == Add64(their_libc, Sub64(OurImage(oimage).getenv, our_libc))
WantedDelta == Sub64(WantedSymbol, Add64(mmap_memory, FromNat(5)))

\* a 64-bit word that is the sign extension of its low 32 bits
IsInt32(d) ==
    \/ d[3] = 0 /\ d[4] = 0 /\ d[2] < 32768
    \/ d[3] = 65535 /\ d[4] = 65535 /\ d[2] >= 32768

\* the rel32 in bytes 1..4 of the block, sign-extended
WrittenRel(block) ==
    LET lo == block[2] + 256 * block[3]
        hi == block[4] + 256 * block[5]
    IN  <<lo, hi, IF hi >= 32768 THEN 65535 ELSE 0, IF hi >= 32768 THEN 65535 ELSE 0>>

C16_Displacement ==
    new_text # <<>> =>
        /\ their_getenv = WantedSymbol
        /\ IF IsInt32(WantedDelta)
           THEN /\ result # Exited(1)
                /\ Add64(Add64(mmap_memory, FromNat(5)), WrittenRel(new_text)) = WantedSymbol
                /\ (hist.trampWritten /\ page.mapped) =>
                      Add64(Add64(page.addr, FromNat(5)), WrittenRel(page.bytes)) = WantedSymbol
           ELSE /\ Done
                /\ result = Exited(1)
                /\ ~hist.trampWritten
                /\ ~hist.callExecuted
                /\ page.bytes = <<>>

\* a CALL backwards, from the page to a lower address, has been written and
\* executed
C16_Witness ==
    /\ hist.trampWritten
    /\ hist.callExecuted
    /\ page.mapped
    /\ WantedDelta[4] = 65535
    /\ Add64(Add64(page.addr, FromNat(5)), WrittenRel(page.bytes)) = WantedSymbol

(***************************************************************************)
(* C17: for every length of the name, a text write that does not save the  *)
(* old contents goes to the 8 bytes at the old rip or lies inside the one  *)
(* page of the scratch mapping; the block of the trampoline does not reach *)
(* past the end of the page.                                               *)
(***************************************************************************)
InScratchPage(w) ==
    /\ OffsetIn(w.where, mmap_memory, PAGE_SIZE) >= 0
    /\ OffsetIn(w.where, mmap_memory, PAGE_SIZE) + w.len <= PAGE_SIZE

C17_WritesInFrame ==
    /\ \A w \in hist.writes :
          ~w.capture => ((w.where = baseRegs.rip /\ w.len = 8) \/ InScratchPage(w))
    /\ hist.spilled = 0

(***************************************************************************)
(* C18: after a lookup that succeeded every byte of the target outside the *)
(* scratch page is what it was before the injection, the stack at and      *)
(* below the old rsp included: the CALL, which pushes its return address   *)
(* at rsp - 8, and the library routine leave nothing changed.              *)
(***************************************************************************)
C18_StackUntouched ==
    (Done /\ result = Returned(0) /\ hist.callExecuted /\ ~opFailed) =>
        /\ text = origText
        /\ tregs = baseRegs
        /\ ~page.mapped
        /\ stack = Zeros(8)

(***************************************************************************)
(* C19: when the failure path writes old_word at the old rip, old_word     *)
(* holds the eight bytes read there before the first patch; the failure    *)
(* path is not reached before old_word was captured, so it writes no bytes *)
(* but the original ones into the target.                                  *)
(***************************************************************************)
C19_FailWritesCaptured ==
    /\ pc = "fail" => (hist.captured /\ old_word = SubSeq(origText, 1, 8))
    /\ (Done /\ result = Returned(1) /\ hist.restores > 0) =>
          SubSeq(text, 1, 8) \in {SubSeq(origText, 1, 8), new_word}

(***************************************************************************)
(* C20: the value is written to standard output only in runs that end with *)
(* exit code 0; a run that ends on the failure path has written nothing.   *)
(***************************************************************************)
C20_OutputOnlyOnSuccess ==
    (Ended /\ result.status # 0) => out = <<>>

====
